---- MODULE Spec2Model ----
(***************************************************************************)
(* Model of chat_server.js: the conversation store kept in messages.json   *)
(* and the request handlers that read, modify and rewrite it.              *)
(*                                                                         *)
(* A JavaScript string is a sequence of one-character strings, so that     *)
(* toLowerCase, sort and the template literal of getConversationId are     *)
(* computed character by character.  A handler runs atomically between two *)
(* awaits; fs.readFile and the two halves of fs.writeFile (open with       *)
(* truncation, then write) are the points where handlers interleave.       *)
(***************************************************************************)
EXTENDS Integers, Sequences, FiniteSets, Bags, TLC

\* ------------------------------------------------------------------ bounds
\* Messages that may be constructed in one behaviour: of Spec and HistSpec,
\* where requests overlap, and of RunSpec, SeqSpec, SepSpec and IdSpec, where
\* they do not.
MaxSends == 1
RunSends == 4
SeqSends == 2
SepSends == 2
IdSends == 1
FaultSends == 1
LiveSends == 1
MaxFaults == 1

\* ----------------------------------------------------------------- strings
\* The characters used by the model, in UTF-16 code unit order
\* ('A' 65 < 'B' 66 < 'C' 67 < '_' 95 < 'a' 97 < 'b' 98 < 'c' 99), the order
\* of Array.sort().
Alphabet == <<"A", "B", "C", "_", "a", "b", "c">>

Ord(c) == CHOOSE i \in 1..Len(Alphabet) : Alphabet[i] = c

\* String.prototype.toLowerCase, one character.
toLowerChar(c) ==
    CASE c = "A" -> "a"
      [] c = "B" -> "b"
      [] c = "C" -> "c"
      [] OTHER   -> c

\* No conversion.
toLowerCaseNone(s) == s

toLowerCase(s) == [i \in 1..Len(s) |-> toLowerChar(s[i])]

\* The default comparison of Array.prototype.sort(): x sorts before y.
StrLess(x, y) ==
    \E i \in 1..(Len(y)) :
        /\ \A j \in 1..(i - 1) : j <= Len(x) /\ x[j] = y[j]
        /\ \/ i > Len(x)
           \/ i <= Len(x) /\ Ord(x[i]) < Ord(y[i])

\* [u, v].sort()
sortPair(u, v) == IF StrLess(v, u) THEN <<v, u>> ELSE <<u, v>>

\* getConversationId without toLowerCase.
getConversationIdCased(wallet1, wallet2) ==
    LET sorted == sortPair(wallet1, wallet2)
    IN  sorted[1] \o <<"_">> \o sorted[2]

getConversationId(wallet1, wallet2) ==
    LET sorted == sortPair(toLowerCase(wallet1), toLowerCase(wallet2))
    IN  sorted[1] \o <<"_">> \o sorted[2]

\* ---------------------------------------------------------- request inputs
\* A JSON body field: absent (undefined) or a string.
Undefined == [t |-> "undefined", s |-> <<>>]
Str(s) == [t |-> "string", s |-> s]

\* !v for the values above: undefined and "" are falsy.
Falsy(v) == v.t = "undefined" \/ v.s = <<>>

\* The wallet addresses requests carry.
Wallets == {<<"A">>, <<"b">>}

\* Wallets with the separator of getConversationId in them.
SepWallets == {<<"a">>, <<"b", "_", "c">>, <<"a", "_", "b">>, <<"c">>}

\* Wallets of every case, with and without the separator.
IdWallets ==
    {<<"A">>, <<"a">>, <<"B">>, <<"b">>, <<"A", "b">>, <<"a", "B">>,
     <<"a", "b">>, <<"B", "a">>, <<"a", "_", "b">>, <<"A", "_", "B">>,
     <<"_">>, <<"b", "_">>}
Messages == {Undefined, Str(<<>>), Str(<<"h", "i">>)}
MessageTypes == {Undefined, Str(<<"i", "m", "g">>)}

\* The from and to fields of POST /chat/send over the wallets W.
BodyFields(W) == {Undefined, Str(<<>>)} \cup {Str(w) : w \in W}

\* The connections the server handles at a time.
Slots == {1, 2}

\* ------------------------------------------------------------------- state
VARIABLES
    file,      \* messages.json: [kind, data]
    inflight,  \* the bag of the handlers in flight, each at an await
    clock,     \* Date.now(), one tick per constructed message
    resp,      \* the response sent by the last step, if it sent one
    hist       \* history of the requests, kept by the specifications that
               \* state the properties (no handler reads it)

vars == <<file, inflight, clock, resp, hist>>

\* defaultData.conversations of readMessages: no conversation.
EmptyStore == <<>>

\* The file does not exist, is empty (opened with truncation, not yet
\* written), holds the JSON text of data, or holds bytes JSON.parse rejects.
FileAbsent == [kind |-> "absent", data |-> EmptyStore]
FileEmpty == [kind |-> "empty", data |-> EmptyStore]
FileCorrupt == [kind |-> "corrupt", data |-> EmptyStore]
FileOk(data) == [kind |-> "ok", data |-> data]

\* fs.writeFile, first half: open(path, 'w') creates or truncates the file.
openTruncate(f) == FileEmpty

\* The JSON text of x is longer than that of y whatever the texts of the
\* messages: x has the conversations of y with as many messages each, and a
\* conversation or a message more.
Longer(x, y) ==
    /\ DOMAIN y \subseteq DOMAIN x
    /\ \A c \in DOMAIN y : Len(x[c].messages) >= Len(y[c].messages)
    /\ \/ DOMAIN x # DOMAIN y
       \/ \E c \in DOMAIN y : Len(x[c].messages) > Len(y[c].messages)

\* fs.writeFile, second half: the text of data is written at offset 0.  On
\* a file another writer filled since this writer's open, a text as long
\* replaces the other writer's and a shorter one leaves the other writer's
\* tail behind it.
writeAtZero(f, data) ==
    CASE f.kind = "empty" -> {FileOk(data)}
      [] f.kind = "ok" /\ (f.data = data \/ Longer(data, f.data)) -> {FileOk(data)}
      [] f.kind = "ok" /\ Longer(f.data, data) -> {FileCorrupt}
      [] OTHER -> {FileOk(data), FileCorrupt}

\* JSON.parse(await fs.readFile(...)) does not throw.
Readable(f) == f.kind = "ok"

\* The conversations a reader of the file f finds.
StoreOf(f) == IF Readable(f) THEN f.data ELSE EmptyStore

Persisted == StoreOf(file)

\* ------------------------------------------------------- handler functions
\* messages.slice(0, 3)
sliceFirst3(messages) == SubSeq(messages, 1, 3)

\* messages.slice(-3)
sliceLast3(messages) == SubSeq(messages, Len(messages) - 2, Len(messages))

\* No truncation.
keepAll(messages) == messages

\* if (messages.length > 3) messages = messages.slice(-3)
keepLast3(messages) ==
    IF Len(messages) > 3 THEN sliceLast3(messages) ELSE messages

\* messageType || 'text'
typeOrText(messageType) ==
    IF Falsy(messageType) THEN <<"t", "e", "x", "t">> ELSE messageType.s

\* read: true.
newMessageRead(from, to, message, messageType, now) ==
    [id          |-> now,
     from        |-> toLowerCase(from),
     to          |-> toLowerCase(to),
     message     |-> message.s,
     messageType |-> typeOrText(messageType),
     timestamp   |-> now,
     read        |-> TRUE]

\* The newMessage object of POST /chat/send; now stands for Date.now() and
\* the random suffix that make the id unique.
newMessage(from, to, message, messageType, now) ==
    [id          |-> now,
     from        |-> toLowerCase(from),
     to          |-> toLowerCase(to),
     message     |-> message.s,
     messageType |-> typeOrText(messageType),
     timestamp   |-> now,
     read        |-> FALSE]

\* The conversation POST /chat/send creates when there is none.
newConversation(from, to, now) ==
    [participants  |-> <<toLowerCase(from), toLowerCase(to)>>,
     messages      |-> <<>>,
     createdAt     |-> now,
     lastMessageAt |-> now]

\* The store after POST /chat/send has created the conversation if absent,
\* pushed the message, truncated and set lastMessageAt.
appendMessage(data, from, to, message, messageType, now) ==
    LET conversationId == getConversationId(from, to)
        old == IF conversationId \in DOMAIN data
               THEN data[conversationId]
               ELSE newConversation(from, to, now)
        new == [old EXCEPT
                  !.messages = keepLast3(
                      Append(@, newMessage(from, to, message, messageType, now))),
                  !.lastMessageAt = now]
    IN  [c \in DOMAIN data \cup {conversationId} |->
            IF c = conversationId THEN new ELSE data[c]]

\* msg.from.toLowerCase() === wallet1.toLowerCase()
addressedFrom(msg, wallet1) == toLowerCase(msg.from) = toLowerCase(wallet1)

\* msg.to.toLowerCase() === wallet1.toLowerCase()
addressedTo(msg, wallet1) == toLowerCase(msg.to) = toLowerCase(wallet1)

\* msg.read = true and msg.to = wallet1 for the messages addressed to
\* wallet1.
markReadBy(data, conversationId, wallet1) ==
    [data EXCEPT ![conversationId].messages =
        [i \in 1..Len(@) |->
            IF addressedTo(@[i], wallet1)
            THEN [@[i] EXCEPT !.read = TRUE, !.to = wallet1]
            ELSE @[i]]]

\* msg.read = !msg.read for the messages addressed to wallet1.
markReadToggle(data, conversationId, wallet1) ==
    [data EXCEPT ![conversationId].messages =
        [i \in 1..Len(@) |->
            IF addressedTo(@[i], wallet1) THEN [@[i] EXCEPT !.read = ~@]
            ELSE @[i]]]

\* The forEach of GET /chat/conversation: msg.read = true for the messages
\* addressed to wallet1.
markRead(data, conversationId, wallet1) ==
    [data EXCEPT ![conversationId].messages =
        [i \in 1..Len(@) |->
            IF addressedTo(@[i], wallet1) THEN [@[i] EXCEPT !.read = TRUE]
            ELSE @[i]]]

\* messages.filter(msg => msg.to === userWallet && !msg.read).length
RECURSIVE unreadIn(_, _)
unreadIn(messages, userWallet) ==
    IF messages = <<>> THEN 0
    ELSE (IF Head(messages).to = userWallet /\ ~Head(messages).read
          THEN 1 ELSE 0) + unreadIn(Tail(messages), userWallet)

\* conversation.participants.includes(userWallet)
includes(participants, userWallet) ==
    \E i \in 1..Len(participants) : participants[i] = userWallet

\* The forEach of GET /chat/unread over the conversations ids of data.
RECURSIVE totalUnread(_, _, _)
totalUnread(data, ids, userWallet) ==
    IF ids = {} THEN 0
    ELSE LET c == CHOOSE x \in ids : TRUE
         IN  (IF includes(data[c].participants, userWallet)
              THEN unreadIn(data[c].messages, userWallet) ELSE 0)
             + totalUnread(data, ids \ {c}, userWallet)

\* What GET /chat/unread answers for wallet on the store data.
getUnreadCount(data, wallet) == totalUnread(data, DOMAIN data, wallet)

\* ------------------------------------------------------- tournament roster
\* GET /games of the main backend: games, each with its tournaments, each
\* with a status and its participants, in the order of Object.values.
Participant(w, name) ==
    [walletAddress |-> w, platformUsername |-> name, gamertags |-> name]

Tournament(status, participants) ==
    [status |-> status, participants |-> participants]

\* The keys of the Map are the wallets as the backend spells them.
hasUserExact(users, pWallet) ==
    \E i \in 1..Len(users) : users[i].walletAddress = pWallet

\* availableUsers.has(pWallet)
hasUser(users, pWallet) ==
    \E i \in 1..Len(users) : toLowerCase(users[i].walletAddress) = pWallet

\* tournament.participants.forEach: a participant other than the user is
\* set in the Map unless its lowercased wallet is a key already.
RECURSIVE addParticipants(_, _, _)
addParticipants(users, participants, userWallet) ==
    IF participants = <<>> THEN users
    ELSE LET pWallet == toLowerCase(Head(participants).walletAddress)
         IN  addParticipants(
                 IF pWallet # userWallet /\ ~hasUser(users, pWallet)
                 THEN Append(users, Head(participants)) ELSE users,
                 Tail(participants), userWallet)

\* tournament.participants?.some(p => p.walletAddress.toLowerCase() === userWallet)
isParticipant(tournament, userWallet) ==
    \E i \in 1..Len(tournament.participants) :
        toLowerCase(tournament.participants[i].walletAddress) = userWallet

\* Object.values(game.tournaments).forEach
RECURSIVE addTournaments(_, _, _)
addTournaments(users, tournaments, userWallet) ==
    IF tournaments = <<>> THEN users
    ELSE addTournaments(
             IF isParticipant(Head(tournaments), userWallet)
                /\ Head(tournaments).status # "finished"
             THEN addParticipants(users, Head(tournaments).participants, userWallet)
             ELSE users,
             Tail(tournaments), userWallet)

\* Object.values(gamesData).forEach: the values of the Map availableUsers,
\* in insertion order.  A game is the sequence of its tournaments.
RECURSIVE availableUsers(_, _, _)
availableUsers(users, gamesData, userWallet) ==
    IF gamesData = <<>> THEN users
    ELSE availableUsers(addTournaments(users, Head(gamesData), userWallet),
                        Tail(gamesData), userWallet)

\* The unreadCount GET /chat/available-users attaches to one user.
pairUnread(data, userWallet, user) ==
    LET convId == getConversationId(userWallet, user.walletAddress)
    IN  IF convId \in DOMAIN data
        THEN Cardinality({i \in 1..Len(data[convId].messages) :
                 /\ toLowerCase(data[convId].messages[i].to) = userWallet
                 /\ ~data[convId].messages[i].read})
        ELSE 0

\* What fetch(.../games) can come to: it throws (the backend is not
\* reachable), it answers with a status that is not ok, or it answers with
\* the games.
Unreachable == [kind |-> "unreachable", games |-> <<>>]
NotOk == [kind |-> "status", games |-> <<>>]
Games(gamesData) == [kind |-> "ok", games |-> gamesData]

\* One game: a running tournament of A, b and b again under another case,
\* and a finished one.
Roster ==
    <<  <<Tournament("active", <<Participant(<<"A">>, "alice"),
                                  Participant(<<"b">>, "bob"),
                                  Participant(<<"B">>, "bobby")>>),
          Tournament("finished", <<Participant(<<"a">>, "alice"),
                                    Participant(<<"c">>, "carol")>>)>>  >>

Gateway == {Unreachable, NotOk, Games(Roster)}

\* fetch threw.
fetchThrew(outcome) == outcome.kind = "unreachable"

\* fetch threw, or !gamesResponse.ok
fetchFailed(outcome) == outcome.kind # "ok"

\* The lists of participants of a tournament: with A and without, with one
\* wallet twice under two cases, with none.
PeerLists ==
    {<<Participant(<<"A">>, "alice"), Participant(<<"b">>, "bob")>>,
     <<Participant(<<"a">>, "al"), Participant(<<"B">>, "bobby"),
       Participant(<<"b">>, "bert")>>,
     <<Participant(<<"b">>, "bob"), Participant(<<"c">>, "carol")>>,
     <<Participant(<<"c">>, "carl"), Participant(<<"A">>, "alice")>>,
     <<>>}

PeerTournaments ==
    {Tournament(status, l) : status \in {"active", "finished"}, l \in PeerLists}

\* Two tournaments, of one game or of two.
PeerRosters ==
    {<< <<t1, t2>> >> : t1, t2 \in PeerTournaments}
        \cup {<< <<t1>>, <<t2>> >> : t1, t2 \in PeerTournaments}

PeerGateway == {Unreachable, NotOk} \cup {Games(g) : g \in PeerRosters}

PeerWallets == {<<"A">>, <<"b">>, <<"c">>}

\* ----------------------------------------------------------------- actions
\* A handler in flight: its operation, the await it is at, its arguments
\* and its locals (messagesData, availableUsers).
Request(op, pc, a, b) ==
    [op |-> op, pc |-> pc, a |-> a, b |-> b, body |-> Undefined,
     kind |-> Undefined, data |-> EmptyStore, users |-> <<>>]

NoResp ==
    [op |-> "none", status |-> 0, a |-> <<>>, b |-> <<>>, id |-> <<>>,
     messages |-> <<>>, participants |-> <<>>, count |-> 0, users |-> <<>>]

\* No send body came in with the last step.
NoBody == <<>>

\* fetch has not settled yet.
NoOutcome == [kind |-> "none", games |-> <<>>]

NoHist ==
    [acked |-> {}, log |-> <<>>, readSeen |-> {}, run |-> <<>>,
     before |-> EmptyStore, lastGet |-> NoResp, lastStore |-> EmptyStore,
     again |-> FALSE, body |-> NoBody, faults |-> 0, convs |-> {},
     outcome |-> NoOutcome]

\* A store left by an earlier run of the server: a sent hi to b, b answered
\* yo, a fetched the conversation and sent sup.  Its ids and timestamps lie
\* before this run's clock.
SeedStore ==
    LET wa == <<"a">>
        wb == <<"b">>
        s1 == appendMessage(EmptyStore, wa, wb, Str(<<"h", "i">>), Undefined, -2)
        s2 == appendMessage(s1, wb, wa, Str(<<"y", "o">>), Undefined, -1)
        s3 == markRead(s2, getConversationId(wa, wb), wa)
    IN  appendMessage(s3, wa, wb, Str(<<"s", "u", "p">>), Undefined, 0)

\* The process has started and the callback of app.listen has called
\* readMessages: on a first run there is no messages.json, on a restart
\* there is the one the earlier run left.
Init ==
    /\ file \in {FileAbsent, FileOk(SeedStore)}
    /\ inflight = SetToBag({Request("init", "read", <<>>, <<>>)})
    /\ clock = 0
    /\ resp = NoResp
    /\ hist = NoHist

InFlight == BagToSet(inflight)

\* HTTP requests in flight (the callback of app.listen is none).
Load == BagCardinality(inflight) - Cardinality({r \in InFlight : r.op = "init"})

Free == Load < Cardinality(Slots)

\* Sends in flight that have not constructed their message yet.
Pending ==
    LET early == {r \in InFlight :
                    r.op = "send" /\ r.pc \in {"read", "iopen", "idata"}}
        count[S \in SUBSET early] ==
            IF S = {} THEN 0
            ELSE LET r == CHOOSE x \in S : TRUE
                 IN  CopiesIn(r, inflight) + count[S \ {r}]
    IN  count[early]

Start(r) == inflight' = inflight (+) SetToBag({r})

Finish(r) == inflight' = inflight (-) SetToBag({r})

Move(r, r2) == inflight' = (inflight (-) SetToBag({r})) (+) SetToBag({r2})

Respond(r) == resp' = r

Silent == resp' = NoResp

\* if (!from || !to)
missingFieldNoBody(from, to, message) == Falsy(from) \/ Falsy(to)

\* if (!from || !to || !message)
missingField(from, to, message) == Falsy(from) \/ Falsy(to) \/ Falsy(message)

\* POST /chat/send up to the call of readMessages.
SendStart(limit, from, to, message, messageType) ==
    /\ Free
    /\ IF missingField(from, to, message)
       THEN /\ Respond([NoResp EXCEPT !.op = "send", !.status = 400])
            /\ UNCHANGED inflight
       ELSE /\ clock + Pending < limit
            /\ Start([Request("send", "read", from.s, to.s) EXCEPT
                         !.body = message, !.kind = messageType])
            /\ Silent
    /\ UNCHANGED <<file, clock>>

\* GET /chat/conversation/:wallet1/:wallet2 up to the call of readMessages.
GetStart(wallet1, wallet2) ==
    /\ Free
    /\ Start(Request("get", "read", wallet1, wallet2))
    /\ Silent
    /\ UNCHANGED <<file, clock>>

\* GET /chat/unread/:walletAddress up to the call of readMessages.
UnreadStart(walletAddress) ==
    /\ Free
    /\ Start(Request("unread", "read", walletAddress, <<>>))
    /\ Silent
    /\ UNCHANGED <<file, clock>>

\* GET /chat/available-users/:walletAddress up to the call of fetch.
PeersStart(walletAddress) ==
    /\ Free
    /\ Start(Request("peers", "fetch", walletAddress, <<>>))
    /\ Silent
    /\ UNCHANGED <<file, clock>>

\* fetch settles with outcome: the handler answers 500, or collects the
\* users of the same tournaments and calls readMessages.
FetchDone(r, outcome) ==
    /\ r.pc = "fetch"
    /\ IF fetchFailed(outcome)
       THEN /\ Finish(r)
            /\ Respond([NoResp EXCEPT !.op = "peers", !.status = 500, !.a = r.a])
       ELSE /\ Move(r, [r EXCEPT !.pc = "read",
                                 !.users = availableUsers(<<>>, outcome.games,
                                                          toLowerCase(r.a))])
            /\ Silent
    /\ UNCHANGED <<file, clock>>

\* The handler r from the return of readMessages with data to its next
\* await or to its response.
Continue(r, data) ==
    LET conversationId == getConversationId(r.a, r.b)
    IN  CASE r.op = "init" ->
               /\ Finish(r)
               /\ Silent
               /\ UNCHANGED clock
          [] r.op = "unread" ->
               /\ Finish(r)
               /\ Respond([NoResp EXCEPT
                      !.op = "unread", !.status = 200, !.a = r.a,
                      !.count = totalUnread(data, DOMAIN data, toLowerCase(r.a))])
               /\ UNCHANGED clock
          [] r.op = "peers" ->
               /\ Finish(r)
               /\ Respond([NoResp EXCEPT
                      !.op = "peers", !.status = 200, !.a = r.a,
                      !.users = [i \in 1..Len(r.users) |->
                          [user |-> r.users[i],
                           unreadCount |-> pairUnread(data, toLowerCase(r.a),
                                                      r.users[i])]],
                      !.count = Len(r.users)])
               /\ UNCHANGED clock
          [] r.op = "get" /\ conversationId \notin DOMAIN data ->
               /\ Finish(r)
               /\ Respond([NoResp EXCEPT
                      !.op = "get", !.status = 200, !.a = r.a, !.b = r.b,
                      !.id = conversationId,
                      !.participants = <<toLowerCase(r.a), toLowerCase(r.b)>>])
               /\ UNCHANGED clock
          [] r.op = "get" /\ conversationId \in DOMAIN data ->
               /\ Move(r, [r EXCEPT !.pc = "wopen",
                                    !.data = markRead(data, conversationId, r.a)])
               /\ Silent
               /\ UNCHANGED clock
          [] r.op = "send" ->
               /\ clock' = clock + 1
               /\ Move(r, [r EXCEPT !.pc = "wopen",
                                    !.data = appendMessage(data, r.a, r.b, r.body,
                                                           r.kind, clock + 1)])
               /\ Silent

\* readMessages: fs.readFile and JSON.parse; the catch branch calls
\* writeMessages(defaultData).
ReadFile(r) ==
    /\ r.pc = "read"
    /\ IF Readable(file)
       THEN Continue(r, file.data)
       ELSE /\ Move(r, [r EXCEPT !.pc = "iopen"])
            /\ Silent
            /\ UNCHANGED clock
    /\ UNCHANGED file

\* writeMessages(defaultData): the file is opened, truncated or created.
InitOpen(r) ==
    /\ r.pc = "iopen"
    /\ file' = openTruncate(file)
    /\ Move(r, [r EXCEPT !.pc = "idata"])
    /\ Silent
    /\ UNCHANGED clock

\* writeMessages(defaultData): the text is written; readMessages returns
\* defaultData to the handler.
InitData(r) ==
    /\ r.pc = "idata"
    /\ file' \in writeAtZero(file, EmptyStore)
    /\ Continue(r, EmptyStore)

\* writeMessages(messagesData) of a handler: the file is opened and truncated.
WriteOpen(r) ==
    /\ r.pc = "wopen"
    /\ file' = openTruncate(file)
    /\ Move(r, [r EXCEPT !.pc = "wdata"])
    /\ Silent
    /\ UNCHANGED clock

\* writeMessages(messagesData) of a handler: the text is written and the
\* handler answers.
WriteData(r) ==
    LET conversationId == getConversationId(r.a, r.b)
        conversation == r.data[conversationId]
    IN  /\ r.pc = "wdata"
        /\ file' \in writeAtZero(file, r.data)
        /\ Finish(r)
        /\ IF r.op = "send"
           THEN Respond([NoResp EXCEPT
                    !.op = "send", !.status = 200, !.a = r.a, !.b = r.b,
                    !.id = conversationId,
                    !.messages =
                        <<conversation.messages[Len(conversation.messages)]>>])
           ELSE Respond([NoResp EXCEPT
                    !.op = "get", !.status = 200, !.a = r.a, !.b = r.b,
                    !.id = conversationId,
                    !.messages = conversation.messages,
                    !.participants = conversation.participants])
        /\ UNCHANGED clock

\* The catch block of a route answers 500; the callback of app.listen has
\* none and its rejection goes unanswered.
Fail(r) ==
    /\ Finish(r)
    /\ IF r.op = "init" THEN Silent
       ELSE Respond([NoResp EXCEPT !.op = r.op, !.status = 500,
                                   !.a = r.a, !.b = r.b])

\* readMessages: fs.readFile rejects on a file that is there (EACCES, EIO,
\* EMFILE); the catch branch calls writeMessages(defaultData).
ReadError(r) ==
    /\ r.pc = "read"
    /\ file.kind # "absent"
    /\ Move(r, [r EXCEPT !.pc = "iopen"])
    /\ Silent
    /\ UNCHANGED <<file, clock>>

\* fs.writeFile rejects at the open (EACCES, EMFILE, EROFS): the file is as
\* it was and the rejection reaches the caller of readMessages or of
\* writeMessages.
OpenError(r) ==
    /\ r.pc \in {"iopen", "wopen"}
    /\ Fail(r)
    /\ UNCHANGED <<file, clock>>

\* fs.writeFile rejects at the write (ENOSPC, EIO): nothing or a part of
\* the text is in the file.
WriteError(r) ==
    /\ r.pc \in {"idata", "wdata"}
    /\ file' \in {file, FileCorrupt}
    /\ Fail(r)
    /\ UNCHANGED clock

\* ----------------------------------------------------------------- history
\* The ids of the messages of data that are marked read.
ReadIds(data) ==
    UNION {{data[c].messages[i].id :
               i \in {j \in 1..Len(data[c].messages) : data[c].messages[j].read}} :
           c \in DOMAIN data}

\* The two wallets of a message.
PairOf(msg) == {msg.from, msg.to}

\* The handler that constructed its message in this step.
Constructed ==
    CHOOSE r \in BagToSet(inflight') :
        /\ r.op = "send" /\ r.pc = "wopen"
        /\ LET msgs == r.data[getConversationId(r.a, r.b)].messages
           IN  msgs[Len(msgs)].id = clock'

\* What a step adds to the history of the writes: the message a send
\* constructed, the message a send answered 200 for, the messages the file
\* holds as read, the conversations the file holds.
ObserveWrites ==
    hist' = [hist EXCEPT
        !.acked = IF resp'.op = "send" /\ resp'.status = 200
                  THEN @ \cup {resp'.messages[1].id} ELSE @,
        !.log = IF clock' # clock
                THEN Append(@, getConversationId(Constructed.a, Constructed.b))
                ELSE @,
        !.readSeen = @ \cup ReadIds(StoreOf(file')),
        !.convs = @ \cup DOMAIN StoreOf(file) \cup DOMAIN StoreOf(file')]

\* What a step adds to the run of the sends answered 200 on one pair of
\* wallets: a send on another pair starts a new run.
ObserveRun ==
    hist' = [hist EXCEPT
        !.run = IF resp'.op = "send" /\ resp'.status = 200
                THEN IF @ # <<>> /\ PairOf(@[1]) = PairOf(resp'.messages[1])
                     THEN Append(@, resp'.messages[1])
                     ELSE <<resp'.messages[1]>>
                ELSE @]

\* What a step adds to the history of the calls: the store a request found
\* when it came in; the last answer of getConversation with the store it
\* left, forgotten when a message is constructed; whether that answer was
\* to the same call as the answer before it.
ObserveCalls ==
    hist' = [hist EXCEPT
        !.before = IF BagCardinality(inflight') > BagCardinality(inflight)
                   THEN StoreOf(file) ELSE @,
        !.lastGet = IF resp'.op = "get" /\ resp'.status = 200 THEN resp'
                    ELSE IF clock' # clock THEN NoResp ELSE @,
        !.lastStore = IF resp'.op = "get" /\ resp'.status = 200
                      THEN StoreOf(file') ELSE @,
        !.again = IF resp'.op = "get" /\ resp'.status = 200
                  THEN /\ hist.lastGet.op = "get"
                       /\ hist.lastGet.a = resp'.a
                       /\ hist.lastGet.b = resp'.b
                  ELSE IF clock' # clock THEN FALSE ELSE @]

\* The history of the bodies: the body p of POST /chat/send came in with
\* this step, or none did.
ObserveBody(p) == hist' = [hist EXCEPT !.body = p]

\* The history of the input and output: the store a request found when it
\* came in, and the n errors of fs in this step.
ObserveIO(n) ==
    hist' = [hist EXCEPT
        !.before = IF BagCardinality(inflight') > BagCardinality(inflight)
                   THEN StoreOf(file) ELSE @,
        !.faults = @ + n]

\* The history of the gateway: what fetch came to in this step.
ObserveFetch(outcome) == hist' = [hist EXCEPT !.outcome = outcome]

\* ---------------------------------------------------------- specifications
\* The send bodies over the wallets W: every body with a field missing, and
\* the bodies with from and to in Pairs.
SendArgs(W, Pairs) ==
    {p \in BodyFields(W) \X BodyFields(W) \X Messages :
        missingField(p[1], p[2], p[3]) \/ <<p[1].s, p[2].s>> \in Pairs}

\* Two different wallets.
Others == {p \in Wallets \X Wallets : p[1] # p[2]}

\* The same, and b with itself.
RunPairs == Others \cup {<< <<"b">>, <<"b">> >>}

\* No handler is in flight.
Quiet == inflight = EmptyBag

\* Requests overlap: each comes in whenever a connection is free.
Next ==
    \/ \E p \in SendArgs(Wallets, Others) :
           SendStart(MaxSends, p[1], p[2], p[3], Undefined) /\ UNCHANGED hist
    \/ \E p \in Others : GetStart(p[1], p[2]) /\ UNCHANGED hist
    \/ \E w \in Wallets : UnreadStart(w) /\ UNCHANGED hist
    \/ \E w \in Wallets : PeersStart(w) /\ UNCHANGED hist
    \/ \E r \in InFlight, outcome \in Gateway :
           FetchDone(r, outcome) /\ UNCHANGED hist
    \/ \E r \in InFlight : ReadFile(r) /\ UNCHANGED hist
    \/ \E r \in InFlight : InitOpen(r) /\ UNCHANGED hist
    \/ \E r \in InFlight : InitData(r) /\ UNCHANGED hist
    \/ \E r \in InFlight : WriteOpen(r) /\ UNCHANGED hist
    \/ \E r \in InFlight : WriteData(r) /\ UNCHANGED hist

Spec == Init /\ [][Next]_vars

\* The same, with the history of the writes.
HistNext ==
    \/ \E p \in SendArgs(Wallets, Others) :
           SendStart(MaxSends, p[1], p[2], p[3], Undefined) /\ ObserveWrites
    \/ \E p \in Others : GetStart(p[1], p[2]) /\ ObserveWrites
    \/ \E w \in Wallets : UnreadStart(w) /\ ObserveWrites
    \/ \E w \in Wallets : PeersStart(w) /\ ObserveWrites
    \/ \E r \in InFlight, outcome \in Gateway :
           FetchDone(r, outcome) /\ ObserveWrites
    \/ \E r \in InFlight : ReadFile(r) /\ ObserveWrites
    \/ \E r \in InFlight : InitOpen(r) /\ ObserveWrites
    \/ \E r \in InFlight : InitData(r) /\ ObserveWrites
    \/ \E r \in InFlight : WriteOpen(r) /\ ObserveWrites
    \/ \E r \in InFlight : WriteData(r) /\ ObserveWrites

HistSpec == Init /\ [][HistNext]_vars

\* Requests do not overlap: each comes in when no handler is in flight.
\* Sends go both ways between A and b and from b to itself.
RunNext ==
    \/ \E p \in SendArgs(Wallets, RunPairs) :
           Quiet /\ SendStart(RunSends, p[1], p[2], p[3], Undefined) /\ ObserveRun
    \/ \E p \in RunPairs : Quiet /\ GetStart(p[1], p[2]) /\ ObserveRun
    \/ \E w \in Wallets : Quiet /\ UnreadStart(w) /\ ObserveRun
    \/ \E w \in Wallets : Quiet /\ PeersStart(w) /\ ObserveRun
    \/ \E r \in InFlight, outcome \in Gateway :
           FetchDone(r, outcome) /\ ObserveRun
    \/ \E r \in InFlight : ReadFile(r) /\ ObserveRun
    \/ \E r \in InFlight : InitOpen(r) /\ ObserveRun
    \/ \E r \in InFlight : InitData(r) /\ ObserveRun
    \/ \E r \in InFlight : WriteOpen(r) /\ ObserveRun
    \/ \E r \in InFlight : WriteData(r) /\ ObserveRun

RunSpec == Init /\ [][RunNext]_vars

\* Requests do not overlap; every message type.
SeqNext ==
    \/ \E p \in SendArgs(Wallets, Others), t \in MessageTypes :
           Quiet /\ SendStart(SeqSends, p[1], p[2], p[3], t) /\ ObserveCalls
    \/ \E p \in Others : Quiet /\ GetStart(p[1], p[2]) /\ ObserveCalls
    \/ \E w \in Wallets : Quiet /\ UnreadStart(w) /\ ObserveCalls
    \/ \E w \in Wallets : Quiet /\ PeersStart(w) /\ ObserveCalls
    \/ \E r \in InFlight, outcome \in Gateway :
           FetchDone(r, outcome) /\ ObserveCalls
    \/ \E r \in InFlight : ReadFile(r) /\ ObserveCalls
    \/ \E r \in InFlight : InitOpen(r) /\ ObserveCalls
    \/ \E r \in InFlight : InitData(r) /\ ObserveCalls
    \/ \E r \in InFlight : WriteOpen(r) /\ ObserveCalls
    \/ \E r \in InFlight : WriteData(r) /\ ObserveCalls

SeqSpec == Init /\ [][SeqNext]_vars

\* The two pairs of wallets that getConversationId gives one id, each in
\* both directions.
SepPairs ==
    {<< <<"a">>, <<"b", "_", "c">> >>, << <<"b", "_", "c">>, <<"a">> >>,
     << <<"a", "_", "b">>, <<"c">> >>, << <<"c">>, <<"a", "_", "b">> >>}

\* Requests do not overlap; wallets with the separator in them.
SepNext ==
    \/ \E p \in SendArgs(SepWallets, SepPairs) :
           Quiet /\ SendStart(SepSends, p[1], p[2], p[3], Undefined) /\ ObserveCalls
    \/ \E p \in SepPairs : Quiet /\ GetStart(p[1], p[2]) /\ ObserveCalls
    \/ \E w \in SepWallets : Quiet /\ UnreadStart(w) /\ ObserveCalls
    \/ \E w \in SepWallets : Quiet /\ PeersStart(w) /\ ObserveCalls
    \/ \E r \in InFlight, outcome \in Gateway :
           FetchDone(r, outcome) /\ ObserveCalls
    \/ \E r \in InFlight : ReadFile(r) /\ ObserveCalls
    \/ \E r \in InFlight : InitOpen(r) /\ ObserveCalls
    \/ \E r \in InFlight : InitData(r) /\ ObserveCalls
    \/ \E r \in InFlight : WriteOpen(r) /\ ObserveCalls
    \/ \E r \in InFlight : WriteData(r) /\ ObserveCalls

SepSpec == Init /\ [][SepNext]_vars

\* A and b in either case, and the pairs of one of each.
CaseWallets == {<<"A">>, <<"a">>, <<"B">>, <<"b">>}

CasePairs ==
    {p \in CaseWallets \X CaseWallets : toLowerCase(p[1]) # toLowerCase(p[2])}

\* Requests do not overlap; conversations are fetched with wallets of every
\* case, messages sent between A and b in either case.
IdNext ==
    \/ \E p \in SendArgs(CaseWallets, CasePairs) :
           Quiet /\ SendStart(IdSends, p[1], p[2], p[3], Undefined) /\ ObserveBody(p)
    \/ \E p \in IdWallets \X IdWallets :
           Quiet /\ GetStart(p[1], p[2]) /\ ObserveBody(NoBody)
    \/ \E w \in IdWallets : Quiet /\ UnreadStart(w) /\ ObserveBody(NoBody)
    \/ \E w \in IdWallets : Quiet /\ PeersStart(w) /\ ObserveBody(NoBody)
    \/ \E r \in InFlight, outcome \in Gateway :
           FetchDone(r, outcome) /\ ObserveBody(NoBody)
    \/ \E r \in InFlight : ReadFile(r) /\ ObserveBody(NoBody)
    \/ \E r \in InFlight : InitOpen(r) /\ ObserveBody(NoBody)
    \/ \E r \in InFlight : InitData(r) /\ ObserveBody(NoBody)
    \/ \E r \in InFlight : WriteOpen(r) /\ ObserveBody(NoBody)
    \/ \E r \in InFlight : WriteData(r) /\ ObserveBody(NoBody)

IdSpec == Init /\ [][IdNext]_vars

\* On a restart messages.json may also hold a text JSON.parse rejects.
FaultInit ==
    /\ file \in {FileAbsent, FileOk(SeedStore), FileCorrupt}
    /\ inflight = SetToBag({Request("init", "read", <<>>, <<>>)})
    /\ clock = 0
    /\ resp = NoResp
    /\ hist = NoHist

\* Requests do not overlap; fs rejects up to MaxFaults calls.
FaultNext ==
    \/ \E p \in SendArgs(Wallets, Others) :
           Quiet /\ SendStart(FaultSends, p[1], p[2], p[3], Undefined) /\ ObserveIO(0)
    \/ \E p \in Others : Quiet /\ GetStart(p[1], p[2]) /\ ObserveIO(0)
    \/ \E w \in Wallets : Quiet /\ UnreadStart(w) /\ ObserveIO(0)
    \/ \E w \in Wallets : Quiet /\ PeersStart(w) /\ ObserveIO(0)
    \/ \E r \in InFlight, outcome \in Gateway :
           FetchDone(r, outcome) /\ ObserveIO(0)
    \/ \E r \in InFlight : ReadFile(r) /\ ObserveIO(0)
    \/ \E r \in InFlight : InitOpen(r) /\ ObserveIO(0)
    \/ \E r \in InFlight : InitData(r) /\ ObserveIO(0)
    \/ \E r \in InFlight : WriteOpen(r) /\ ObserveIO(0)
    \/ \E r \in InFlight : WriteData(r) /\ ObserveIO(0)
    \/ \E r \in InFlight :
           hist.faults < MaxFaults /\ ReadError(r) /\ ObserveIO(1)
    \/ \E r \in InFlight :
           hist.faults < MaxFaults /\ OpenError(r) /\ ObserveIO(1)
    \/ \E r \in InFlight :
           hist.faults < MaxFaults /\ WriteError(r) /\ ObserveIO(1)

FaultSpec == FaultInit /\ [][FaultNext]_vars

\* Requests for the available users do not overlap; the backend answers
\* with every roster of PeerRosters.
PeersNext ==
    \/ \E w \in PeerWallets : Quiet /\ PeersStart(w) /\ UNCHANGED hist
    \/ \E r \in InFlight, outcome \in PeerGateway :
           FetchDone(r, outcome) /\ ObserveFetch(outcome)
    \/ \E r \in InFlight : ReadFile(r) /\ UNCHANGED hist
    \/ \E r \in InFlight : InitOpen(r) /\ UNCHANGED hist
    \/ \E r \in InFlight : InitData(r) /\ UNCHANGED hist

PeersSpec == Init /\ [][PeersNext]_vars

\* Requests do not overlap.
LiveNext ==
    \/ \E p \in SendArgs(Wallets, Others) :
           Quiet /\ SendStart(LiveSends, p[1], p[2], p[3], Undefined)
                 /\ UNCHANGED hist
    \/ \E p \in Others : Quiet /\ GetStart(p[1], p[2]) /\ UNCHANGED hist
    \/ \E w \in Wallets : Quiet /\ UnreadStart(w) /\ UNCHANGED hist
    \/ \E w \in Wallets : Quiet /\ PeersStart(w) /\ UNCHANGED hist
    \/ \E r \in InFlight, outcome \in Gateway :
           FetchDone(r, outcome) /\ UNCHANGED hist
    \/ \E r \in InFlight : ReadFile(r) /\ UNCHANGED hist
    \/ \E r \in InFlight : InitOpen(r) /\ UNCHANGED hist
    \/ \E r \in InFlight : InitData(r) /\ UNCHANGED hist
    \/ \E r \in InFlight : WriteOpen(r) /\ UNCHANGED hist
    \/ \E r \in InFlight : WriteData(r) /\ UNCHANGED hist

\* A call of fs that a handler awaits settles.
FileStep ==
    \E r \in InFlight :
        /\ ReadFile(r) \/ InitOpen(r) \/ InitData(r) \/ WriteOpen(r) \/ WriteData(r)
        /\ UNCHANGED hist

\* The calls of fs settle: the file is local.  fetch is called without a
\* signal or a timeout, and nothing makes its promise settle.
LiveSpec == Init /\ [][LiveNext]_vars /\ WF_vars(FileStep)

\* ------------------------------------------------------------ properties
\* The messages of the conversation c of the store data.
MessagesOf(data, c) == IF c \in DOMAIN data THEN data[c].messages ELSE <<>>

\* C1: whatever the interleaving of the handlers, no conversation of the
\* persisted store holds more than 3 messages.
C1_AtMostThree ==
    \A c \in DOMAIN Persisted : Len(Persisted[c].messages) <= 3

\* A send of this run was persisted onto three older messages, and the
\* oldest of them is gone.
C1_Witness ==
    \E c \in DOMAIN Persisted :
        /\ Len(Persisted[c].messages) = 3
        /\ Persisted[c].messages[3].id >= 1
        /\ Persisted[c].messages[1].id = -1

\* A message whatever its read flag.
Unflagged(msg) == [msg EXCEPT !.read = FALSE]

\* C2: after a run of more than 3 sends that do not overlap on one pair of
\* wallets, the conversation of the pair holds the last 3 messages of the
\* run and no other, in the order they were sent.
C2_LastThree ==
    (Quiet /\ Len(hist.run) > 3) =>
        LET n == Len(hist.run)
            c == getConversationId(hist.run[1].from, hist.run[1].to)
            stored == MessagesOf(Persisted, c)
        IN  /\ Readable(file)
            /\ [i \in 1..Len(stored) |-> Unflagged(stored[i])]
                   = SubSeq(hist.run, n - 2, n)

\* A run of four sends in both directions has been answered.
C2_Witness ==
    /\ Quiet
    /\ Len(hist.run) = 4
    /\ \E i, j \in 1..4 : hist.run[i].from # hist.run[j].from

\* The message id is in the persisted store.
Stored(id) ==
    \E c \in DOMAIN Persisted :
        \E i \in 1..Len(Persisted[c].messages) : Persisted[c].messages[i].id = id

\* The messages constructed after the message id in its conversation.
Newer(id) == {j \in (id + 1)..Len(hist.log) : hist.log[j] = hist.log[id]}

\* C3: no update is lost; once the handlers have finished, every message a
\* send answered 200 for is in the store, unless 3 newer messages of its
\* conversation have evicted it.
C3_NoLostUpdate ==
    Quiet => \A id \in hist.acked : Stored(id) \/ Cardinality(Newer(id)) >= 3

\* C4: a message the store once held as read is never held as unread.
C4_ReadMonotone ==
    \A c \in DOMAIN Persisted :
        \A i \in 1..Len(Persisted[c].messages) :
            Persisted[c].messages[i].id \in hist.readSeen
                => Persisted[c].messages[i].read

\* The letters that differ in case only.
SameLetter(x, y) ==
    \/ x = y
    \/ {x, y} \in {{"A", "a"}, {"B", "b"}, {"C", "c"}}

\* The wallets that differ in case only.
SameWallet(x, y) ==
    /\ Len(x) = Len(y)
    /\ \A i \in 1..Len(x) : SameLetter(x[i], y[i])

\* C5: the conversation a request addresses is the one every request with
\* the same wallets addresses, whatever their case and their order.
C5_SymmetricCaseInvariant ==
    (resp.op \in {"get", "send"} /\ resp.status = 200) =>
        \A x, y \in IdWallets :
            (SameWallet(x, resp.a) /\ SameWallet(y, resp.b)) =>
                /\ getConversationId(x, y) = resp.id
                /\ getConversationId(y, x) = resp.id

\* A message sent to b by A in some case is in the conversation fetched
\* with the wallets in the other order and another case.
C5_Witness ==
    /\ resp.op = "get"
    /\ resp.a = <<"B">>
    /\ resp.b = <<"a">>
    /\ \E i \in 1..Len(resp.messages) :
           /\ resp.messages[i].id = 1
           /\ resp.messages[i].to = <<"b">>

\* The unread messages of the conversation c of data that are addressed to
\* wallet.
UnreadTo(data, c, wallet) ==
    {i \in 1..Len(MessagesOf(data, c)) :
        /\ MessagesOf(data, c)[i].to = wallet
        /\ ~MessagesOf(data, c)[i].read}

\* The unread messages addressed to wallet in the conversations of data
\* that contain wallet.
UnreadOf(data, wallet) ==
    UNION {{<<c, i>> : i \in UnreadTo(data, c, wallet)} :
           c \in {x \in DOMAIN data :
                     \E k \in 1..Len(data[x].participants) :
                         data[x].participants[k] = wallet}}

\* C6: getUnreadCount(wallet) is the number of unread messages addressed to
\* wallet in the conversations that contain wallet; and after
\* getConversation(wallet, other) on the conversation X it is lower by
\* exactly the number of messages of X addressed to wallet that were unread
\* before the call.
C6_UnreadCount ==
    [][/\ (resp'.op = "unread" /\ resp'.status = 200) =>
              resp'.count = Cardinality(UnreadOf(StoreOf(file'), toLowerCase(resp'.a)))
       /\ (resp'.op = "get" /\ resp'.status = 200) =>
              getUnreadCount(StoreOf(file'), toLowerCase(resp'.a))
                  = getUnreadCount(hist.before, toLowerCase(resp'.a))
                    - Cardinality(UnreadTo(hist.before, resp'.id,
                                           toLowerCase(resp'.a)))]_vars

\* C7: getConversation called twice in a row, no message sent in between,
\* answers the second time with the messages of the first and leaves the
\* store as the first call left it.
C7_Idempotent ==
    [][(/\ resp'.op = "get" /\ resp'.status = 200
        /\ hist.lastGet.op = "get"
        /\ hist.lastGet.a = resp'.a
        /\ hist.lastGet.b = resp'.b) =>
           /\ resp'.messages = hist.lastGet.messages
           /\ StoreOf(file') = hist.lastStore]_vars

\* The second of two calls in a row has answered, with a message of this
\* run that the first call marked read.
C7_Witness ==
    /\ hist.again
    /\ resp.op = "get"
    /\ \E i \in 1..Len(resp.messages) :
           /\ resp.messages[i].id >= 1
           /\ resp.messages[i].read

\* A field of the body p of POST /chat/send is missing or empty.
Incomplete(p) == \E k \in 1..3 : p[k] = Undefined \/ p[k] = Str(<<>>)

\* C8: a send with an empty or missing from, to or message is answered 400,
\* starts no handler, creates no conversation and leaves the file as it is.
C8_Rejected ==
    [][(hist'.body # NoBody /\ Incomplete(hist'.body)) =>
           /\ resp'.op = "send"
           /\ resp'.status = 400
           /\ inflight' = inflight
           /\ file' = file]_vars

\* A send with its message empty was answered 400 on a store that holds a
\* conversation.
C8_Witness ==
    /\ hist.body = <<Str(<<"A">>), Str(<<"b">>), Str(<<>>)>>
    /\ resp.op = "send"
    /\ resp.status = 400
    /\ Persisted # EmptyStore

\* l is the wallet w in lower case.
Lowered(w, l) ==
    /\ SameWallet(w, l)
    /\ \A i \in 1..Len(l) : l[i] \notin {"A", "B", "C"}

\* The handler r of GET /chat/conversation is about to get the store from
\* readMessages, and the store has no conversation of its pair.
Absent(r) ==
    /\ r.op = "get"
    /\ r.pc \in {"read", "idata"}
    /\ getConversationId(r.a, r.b) \notin DOMAIN Persisted

\* The handler r answers in this step.
Answered(r) ==
    /\ inflight' = inflight (-) SetToBag({r})
    /\ resp'.op = "get"
    /\ resp'.a = r.a
    /\ resp'.b = r.b

\* The answer to r is an empty thread of the two wallets in lower case, and
\* the store has no conversation of the pair.
EmptyThread(r) ==
    /\ resp'.status = 200
    /\ resp'.messages = <<>>
    /\ Len(resp'.participants) = 2
    /\ Lowered(r.a, resp'.participants[1])
    /\ Lowered(r.b, resp'.participants[2])
    /\ getConversationId(r.a, r.b) \notin DOMAIN StoreOf(file')

C10_WriteOnlyIfChanged ==
    [][\A r \in InFlight :
           (/\ r.op = "get"
            /\ r.pc = "read"
            /\ Readable(file)
            /\ getConversationId(r.a, r.b) \in DOMAIN file.data
            /\ UnreadTo(file.data, getConversationId(r.a, r.b),
                        toLowerCase(r.a)) = {}) =>
               inflight' # (inflight (-) SetToBag({r}))
                              (+) SetToBag({[r EXCEPT !.pc = "wopen",
                                                      !.data = file.data]})]_vars

\* The handler r takes this step.
Stepped(r) == CopiesIn(r, inflight') < CopiesIn(r, inflight)

\* C11: no step of a handler of GET /chat/unread or of GET
\* /chat/available-users changes the persisted conversations, whatever the
\* handler answers and whatever the file holds.
C11_ReadOnly ==
    [][\A r \in InFlight :
           (r.op \in {"unread", "peers"} /\ Stepped(r)) =>
               StoreOf(file') = StoreOf(file)]_vars

\* The handler r goes on at pc in this step.
MovedTo(r, pc) ==
    CopiesIn([r EXCEPT !.pc = pc], inflight')
        > CopiesIn([r EXCEPT !.pc = pc], inflight)

\* C12: readMessages initializes an empty store only when messages.json is
\* not there; when it fails on a file that is there, the failure is not
\* recovered and the file is not replaced.
C12_OnlyAbsentRecovered ==
    [][\A r \in InFlight :
           /\ (r.pc = "read" /\ file.kind # "absent" /\ Stepped(r)) =>
                  ~MovedTo(r, "iopen")
           /\ (r.pc = "iopen" /\ file.kind # "absent" /\ Stepped(r)) =>
                  file' = file]_vars

\* The last message of the conversation c of data is msg.
LastIs(data, c, msg) ==
    /\ MessagesOf(data, c) # <<>>
    /\ MessagesOf(data, c)[Len(MessagesOf(data, c))] = msg

\* msg is the message the handler r of POST /chat/send was asked to send.
MessageOf(r, msg) ==
    /\ Lowered(r.a, msg.from)
    /\ Lowered(r.b, msg.to)
    /\ msg.message = r.body.s
    /\ ~msg.read

\* C13: a send answers 200 only in the step that has written the store with
\* the new message, unread, as the last of its conversation; when
\* fs.writeFile rejects, at the open or at the write, the send answers 500
\* and the handler is gone without another write.
C13_SuccessAfterWrite ==
    [][\A r \in InFlight :
           (r.op = "send" /\ r.pc \in {"wopen", "wdata"} /\ Stepped(r)) =>
               \/ /\ r.pc = "wopen"
                  /\ MovedTo(r, "wdata")
                  /\ resp'.op = "none"
               \/ /\ r.pc = "wdata"
                  /\ resp'.op = "send" /\ resp'.status = 200
                  /\ file' = FileOk(r.data)
                  /\ MessageOf(r, resp'.messages[1])
                  /\ LastIs(file'.data, getConversationId(r.a, r.b),
                            resp'.messages[1])
               \/ /\ resp'.op = "send" /\ resp'.status = 500
                  /\ file' # FileOk(r.data)
                  /\ inflight' = inflight (-) SetToBag({r})]_vars

\* A send was answered 200 and its message is the last of three in the
\* file.
C13_Witness ==
    /\ resp.op = "send"
    /\ resp.status = 200
    /\ Readable(file)
    /\ Len(MessagesOf(file.data, resp.id)) = 3
    /\ LastIs(file.data, resp.id, resp.messages[1])

\* C14: once the handlers have finished, every conversation the file ever
\* held is in the store.
C14_NeverDeleted ==
    Quiet => hist.convs \subseteq DOMAIN Persisted

\* The places <<game, tournament, participant>> of the roster games that
\* hold another wallet than wallet in a tournament of wallet that is not
\* finished.
Peers(games, wallet) ==
    {p \in UNION {UNION {{<<g, t, i>> : i \in 1..Len(games[g][t].participants)} :
                         t \in 1..Len(games[g])} : g \in 1..Len(games)} :
        /\ games[p[1]][p[2]].status # "finished"
        /\ \E j \in 1..Len(games[p[1]][p[2]].participants) :
               SameWallet(games[p[1]][p[2]].participants[j].walletAddress, wallet)
        /\ ~SameWallet(games[p[1]][p[2]].participants[p[3]].walletAddress, wallet)}

\* The participant at the place p.
At(games, p) == games[p[1]][p[2]].participants[p[3]]

\* The place p comes before the place q.
Before(p, q) ==
    \/ p[1] < q[1]
    \/ p[1] = q[1] /\ p[2] < q[2]
    \/ p[1] = q[1] /\ p[2] = q[2] /\ p[3] < q[3]

\* C15: the users GET /chat/available-users answers are, one each and in
\* their first occurrence's record, the wallets, compared without case,
\* that are with the wallet in a tournament that is not finished, the
\* wallet itself left out.
C15_PeersExact ==
    (resp.op = "peers" /\ resp.status = 200) =>
        LET games == hist.outcome.games
            peers == Peers(games, resp.a)
        IN  /\ \A k \in 1..Len(resp.users) :
                   \E p \in peers :
                       /\ resp.users[k].user = At(games, p)
                       /\ \A q \in peers :
                              SameWallet(At(games, q).walletAddress,
                                         At(games, p).walletAddress)
                                  => ~Before(q, p)
            /\ \A p \in peers :
                   Cardinality({k \in 1..Len(resp.users) :
                       SameWallet(resp.users[k].user.walletAddress,
                                  At(games, p).walletAddress)}) = 1

\* The users were answered for a roster that lists one of them twice, under
\* two cases and two names.
C15_Witness ==
    /\ resp.op = "peers"
    /\ resp.status = 200
    /\ \E p, q \in Peers(hist.outcome.games, resp.a) :
           /\ At(hist.outcome.games, p) # At(hist.outcome.games, q)
           /\ At(hist.outcome.games, p).walletAddress
                  # At(hist.outcome.games, q).walletAddress
           /\ SameWallet(At(hist.outcome.games, p).walletAddress,
                         At(hist.outcome.games, q).walletAddress)

\* C16: when fetch does not reach the backend or the backend answers with
\* a status that is not ok, GET /chat/available-users answers 500 and the
\* handler is gone: no list of users is answered.
C16_UpstreamError ==
    [][\A r \in InFlight :
           (r.pc = "fetch" /\ Stepped(r) /\ hist'.outcome.kind # "ok") =>
               /\ resp'.op = "peers"
               /\ resp'.status = 500
               /\ resp'.users = <<>>
               /\ inflight' = inflight (-) SetToBag({r})]_vars

\* The backend answered with a status that is not ok and the request was
\* answered 500.
C16_Witness ==
    /\ hist.outcome = NotOk
    /\ resp.op = "peers"
    /\ resp.status = 500
    /\ Quiet

\* C17: every request that was accepted is answered in the end; no handler
\* stays in flight for ever.
C17_Responds == ~Quiet ~> Quiet

\* The messages of data, each with the id of its conversation.
Filed(data) ==
    UNION {{<<c, data[c].messages[i]>> : i \in 1..Len(data[c].messages)} :
           c \in DOMAIN data}

\* C18: a message that was unread when a request came in is read in the
\* file only by a step of a handler of GET /chat/conversation whose first
\* wallet is, without case, the message's to.
C18_ReadByRecipient ==
    [][\A r \in InFlight :
           Stepped(r) =>
               \A x \in Filed(hist.before), y \in Filed(StoreOf(file')) :
                   (x[2].id = y[2].id /\ ~x[2].read /\ y[2].read) =>
                       (r.op = "get" /\ Lowered(r.a, y[2].to))]_vars

\* GET /chat/conversation was answered and a message of this run that was
\* unread when the request came in is read in the file.
C18_Witness ==
    /\ resp.op = "get"
    /\ \E x \in Filed(hist.before), y \in Filed(Persisted) :
           /\ x[2].id = y[2].id
           /\ x[2].id >= 1
           /\ ~x[2].read
           /\ y[2].read

\* C19: a message that was in the store when a request came in and still
\* is in the file is in the same conversation with the same id, from, to,
\* message, messageType and timestamp.
C19_Immutable ==
    [][\A x \in Filed(hist.before), y \in Filed(StoreOf(file')) :
           x[2].id = y[2].id =>
               (x[1] = y[1] /\ Unflagged(x[2]) = Unflagged(y[2]))]_vars

\* A send was answered, and the message that was the last of three before
\* it is the second of three in the file.
C19_Witness ==
    /\ resp.op = "send"
    /\ resp.status = 200
    /\ \E x \in Filed(hist.before), y \in Filed(Persisted) :
           /\ x = y
           /\ Len(MessagesOf(Persisted, y[1])) = 3
           /\ Len(MessagesOf(hist.before, x[1])) = 3
           /\ MessagesOf(Persisted, y[1])[2] = y[2]
           /\ MessagesOf(hist.before, x[1])[3] = x[2]

\* C20: every message of the store is from and to a participant of its
\* conversation, and the id of a conversation is the getConversationId of
\* its two participants: no two pairs of wallets share a conversation.
C20_OnePairPerConversation ==
    \A c \in DOMAIN Persisted :
        /\ Len(Persisted[c].participants) = 2
        /\ c = getConversationId(Persisted[c].participants[1],
                                 Persisted[c].participants[2])
        /\ \A i \in 1..Len(Persisted[c].messages) :
               /\ includes(Persisted[c].participants, Persisted[c].messages[i].from)
               /\ includes(Persisted[c].participants, Persisted[c].messages[i].to)

=============================================================================
